---- MODULE Spec2Model ----
(***************************************************************************)
(* FlashProxy: a TLS reverse proxy built on pingora.                       *)
(*   main.rs          startup, ArcSwap<SecurityLayer> cell, SIGHUP reload  *)
(*   security.rs      SecurityLayer: sliding-window rate limiter + checks  *)
(*   proxy.rs         SecureProxy: the ProxyHttp hooks of one request      *)
(*   metrics.rs       Metrics: labelled counter and histogram              *)
(*   configuration.rs GatewayConfig: from_file, validate                   *)
(* Strings the code inspects are sequences of one-character strings.       *)
(* Instants are ticks of one monotonic clock; 1 s is window_duration ticks.*)
(***************************************************************************)
EXTENDS Integers, Sequences, FiniteSets, TLC

\* ------------------------------------------------------------------ bounds
MaxRequests == 2
MaxTime == 2
MaxCalls == 4
MaxSignals == 2
MaxLimit == 2

\* ------------------------------------------------------------ byte strings
UpperCase == <<"A", "B", "C", "D", "M", "P", "W">>
LowerCase == <<"a", "b", "c", "d", "m", "p", "w">>

\* char::to_lowercase on the letters that occur in the inputs
char_to_lowercase(ch) ==
    IF \E i \in 1..Len(UpperCase) : UpperCase[i] = ch
    THEN LowerCase[CHOOSE i \in 1..Len(UpperCase) : UpperCase[i] = ch]
    ELSE ch

\* str::to_lowercase
to_lowercase(s) == [i \in 1..Len(s) |-> char_to_lowercase(s[i])]

\* str::starts_with
starts_with(s, pre) ==
    /\ Len(pre) <= Len(s)
    /\ \A i \in 1..Len(pre) : s[i] = pre[i]

\* str::contains
contains(s, sub) ==
    \E k \in 0..(Len(s) - Len(sub)) :
        \A i \in 1..Len(sub) : s[k + i] = sub[i]

\* security.rs:8-10
BLOCKED_USER_AGENTS ==
    << <<"c","u","r","l">>,
       <<"p","y","t","h","o","n","-","r","e","q","u","e","s","t","s">>,
       <<"w","g","e","t">>,
       <<"p","y","t","h","o","n","-","u","r","l","l","i","b">> >>
BLOCKED_PATHS ==
    << <<"/",".","e","n","v">>, <<"/",".","g","i","t">>,
       <<"/","a","d","m","i","n">>, <<"/",".","a","w","s">>,
       <<"/",".","s","s","h">> >>
PATH_TRAVERSAL == <<".", ".">>

MetricsPath == <<"/","m","e","t","r","i","c","s">>
BearerPrefix == <<"B","e","a","r","e","r"," ">>

\* u16::to_string: the decimal digits, most significant first, no padding
Digit(d) == <<"0","1","2","3","4","5","6","7","8","9">>[d + 1]
RECURSIVE to_string(_)
to_string(n) ==
    IF n < 10 THEN <<Digit(n)>>
    ELSE Append(to_string(n \div 10), Digit(n % 10))

\* Option<T>: None is the empty sequence, Some(v) is <<v>>
None == << >>
Some(v) == <<v>>
\* Result<(), u16>: Ok(()) is the empty sequence, Err(code) is <<code>>
Ok == << >>
Err(code) == <<code>>

\* ------------------------------------------------------------ security.rs
\* Duration::from_secs(1), in clock ticks
window_duration == 2

\* Instant::saturating_duration_since
saturating_duration_since(now, t) == IF now >= t THEN now - t ELSE 0

\* retain keeping a timestamp that is exactly window_duration old
retain_inclusive(timestamps, now) ==
    SelectSeq(timestamps,
              LAMBDA t : saturating_duration_since(now, t) <= window_duration)

\* guard.timestamps.retain(|t| now.saturating_duration_since(*t) < window_duration)
retain(timestamps, now) ==
    SelectSeq(timestamps,
              LAMBDA t : saturating_duration_since(now, t) < window_duration)

\* SecurityLayer::new: a fresh, empty rate_limit_store in every instance
SecurityLayer_new(rate_limit_per_second, jwt_secret) ==
    [rate_limit_store |-> << >>,
     rate_limit_per_second |-> rate_limit_per_second,
     jwt_decoding_key |-> jwt_secret]

\* rate_limit_store.entry(client_ip).or_insert_with(empty window)
entry_or_insert(store, client_ip) ==
    IF client_ip \in DOMAIN store THEN store
    ELSE [k \in DOMAIN store \cup {client_ip} |->
             IF k = client_ip THEN << >> ELSE store[k]]

\* check_rate_limit that returns Ok without recording the call
check_rate_limit_no_push(layer, client_ip, now) ==
    LET store == entry_or_insert(layer.rate_limit_store, client_ip)
        kept == retain(store[client_ip], now)
        limit == layer.rate_limit_per_second
    IN  [result |-> IF Len(kept) >= limit THEN Err(429) ELSE Ok,
         store |-> [store EXCEPT ![client_ip] = kept]]

\* The section of check_rate_limit that runs under the entry's lock, for a
\* call whose sampled instant is now: the result and the store it leaves.
check_rate_limit(layer, client_ip, now) ==
    LET store == entry_or_insert(layer.rate_limit_store, client_ip)
        kept == retain(store[client_ip], now)
        limit == layer.rate_limit_per_second
    IN  IF Len(kept) >= limit
        THEN [result |-> Err(429),
              store |-> [store EXCEPT ![client_ip] = kept]]
        ELSE [result |-> Ok,
              store |-> [store EXCEPT ![client_ip] = Append(kept, now)]]

\* SecurityLayer::check_user_agent
check_user_agent(user_agent) ==
    IF user_agent = None \/ Len(user_agent[1]) = 0 THEN Err(403)
    ELSE LET ua == to_lowercase(user_agent[1])
         IN  IF \E i \in 1..Len(BLOCKED_USER_AGENTS) :
                    contains(ua, to_lowercase(BLOCKED_USER_AGENTS[i]))
             THEN Err(403)
             ELSE Ok

\* SecurityLayer::check_path
check_path(path) ==
    IF contains(path, PATH_TRAVERSAL) THEN Err(403)
    ELSE LET path_lower == to_lowercase(path)
         IN  IF \E i \in 1..Len(BLOCKED_PATHS) :
                    starts_with(path_lower, BLOCKED_PATHS[i])
             THEN Err(403)
             ELSE Ok

\* jsonwebtoken::decode with Validation::new(Algorithm::HS256): the signature
\* verifies under the key, the header names HS256 and exp has not passed.
decode(token, key) ==
    /\ token.alg = "HS256"
    /\ token.signed_with = key
    /\ ~token.expired

\* SecurityLayer::check_jwt; an Authorization value is its scheme prefix
\* followed by a compact token.
check_jwt(layer, auth_header) ==
    IF auth_header = None THEN Err(401)
    ELSE IF ~starts_with(auth_header[1].scheme, BearerPrefix) THEN Err(401)
    ELSE IF decode(auth_header[1].token, layer.jwt_decoding_key) THEN Ok
    ELSE Err(401)

\* SecurityLayer::inject_security_headers: the same four headers from every
\* instance
inject_security_headers(layer) ==
    {"Strict-Transport-Security", "X-Frame-Options",
     "X-Content-Type-Options", "Content-Security-Policy"}

\* ------------------------------------------------------- configuration.rs
\* GatewayConfig::validate (no caller in main.rs)
validate(conf) ==
    IF Len(conf.upstream_ips) = 0 THEN Err("upstream_ips must not be empty")
    ELSE IF conf.rate_limit_per_second = 0
         THEN Err("rate_limit_per_second must be greater than 0")
    ELSE IF Len(conf.jwt_secret) = 0 THEN Err("jwt_secret must not be empty")
    ELSE Ok

\* ------------------------------------------------------------------ inputs
Key1 == <<"k","1">>
Key2 == <<"k","2">>
Backend == <<"10.0.0.9:443">>
GatewayConfig(upstream_ips, rate_limit_per_second, jwt_secret) ==
    [upstream_ips |-> upstream_ips,
     rate_limit_per_second |-> rate_limit_per_second,
     jwt_secret |-> jwt_secret]

\* configurations validate accepts, and one for each way it rejects
ValidConfigs ==
    {GatewayConfig(Backend, 1, Key1), GatewayConfig(Backend, 2, Key2)}
InvalidConfigs ==
    {GatewayConfig(<< >>, 1, Key1), GatewayConfig(Backend, 0, Key1),
     GatewayConfig(Backend, 1, << >>)}
Configs == ValidConfigs \cup InvalidConfigs
\* configurations of the serving specification: a ceiling of one, a ceiling
\* of zero, no backend; of the rate-limiter specification: every ceiling
RateConfigs == {GatewayConfig(Backend, n, Key1) : n \in 1..MaxLimit}
ServeConfigs ==
    {GatewayConfig(Backend, 1, Key1), GatewayConfig(Backend, 0, Key1),
     GatewayConfig(<< >>, 1, Key1)}

\* What GatewayConfig::from_file can return: ConfigError::Io,
\* ConfigError::Parse, or the parsed configuration.
FromFileResults ==
    {[kind |-> "Io"], [kind |-> "Parse"]}
        \cup {[kind |-> "Ok", conf |-> c] : c \in Configs}

Token(k) == [alg |-> "HS256", signed_with |-> k, expired |-> FALSE]
Bearer(k) == Some([scheme |-> BearerPrefix, token |-> Token(k)])
OkPath == <<"/","o","k">>
Browser == Some(<<"M","o","z">>)
Methods == {"GET", "POST"}
Paths == {MetricsPath, OkPath, <<"/","A","d","m","i","n">>}
UserAgents == {Some(<<"C","u","r","l","/","8">>), Browser}
Authorizations == {None, Bearer(Key1)}
ClientAddrs == {None, Some("10.0.0.1:5000")}
\* the client_ip strings of these addresses, and the shards of the store
Clients == {"unknown", "10.0.0.1:5000"}
Shards == {1, 2}
\* the keys hash to one shard, or to two
ShardMaps ==
    {[c \in Clients |-> 1],
     [c \in Clients |-> IF c = "unknown" THEN 1 ELSE 2]}

\* request heads of the serving specification
Requests ==
    [method : Methods, path : Paths, user_agent : UserAgents,
     authorization : Authorizations, client_addr : {Some("10.0.0.1:5000")}]
\* request heads of the specification with scheduling: scrapes, and requests
\* that a check refuses or that are forwarded
LiveRequests ==
    [method : Methods, path : {MetricsPath, OkPath}, user_agent : {Browser},
     authorization : Authorizations, client_addr : {Some("10.0.0.1:5000")}]
\* request heads of the specification with reloads: one client, tokens of
\* either key, and a scrape
ReloadRequests ==
    [method : {"GET"}, path : {OkPath}, user_agent : {Browser},
     authorization : {Bearer(Key1), Bearer(Key2)},
     client_addr : {Some("10.0.0.1:5000")}]
UpstreamStatuses == {200}
Workers == {1, 2}

\* ------------------------------------------------------------------- state
VARIABLES
    clock,          \* the monotonic clock Instant::now() reads
    main_pc,        \* main(): "start", "exited" or "serving"
    exit_code,      \* std::process::exit code, None while running
    config,         \* main's config, None before it is loaded
    layers,         \* every SecurityLayer instance built so far
    security,       \* the ArcSwap cell: index in layers, 0 before it exists
    sighup,         \* a SIGHUP is pending
    signals,        \* SIGHUPs delivered so far
    sup_pc,         \* reload thread: "none", "recv" or "match"
    sup_result,     \* what from_file returned to the reload thread
    reload_log,     \* the reload thread's info!/error! outcomes, in order
    pc,             \* per worker: the hook its request is at
    req,            \* per worker: the request head
    ctx,            \* per worker: RequestCtx
    snapshot,       \* per worker: security_snapshot of request_filter
    now,            \* per worker: the instant check_rate_limit sampled
    upstream,       \* per worker: the upstream response status, if any
    responded,      \* per worker: the status the proxy answered with
    written,        \* per worker: session.response_written() status
    headers,        \* per worker: headers injected by response_filter
    trace,          \* per worker: <<hook or check, layer used, result>> in order
    http_requests_total,            \* label tuple -> counter
    http_request_duration_seconds,  \* label tuple -> observations
    started,        \* requests accepted by the listener so far
    accepted,       \* <<client_ip, instant>> -> direct calls that returned Ok
    called,         \* <<client_ip, instant>>: a direct call began or returned
    shard_of,       \* DashMap: the shard each key hashes to
    shard_guard,    \* per shard: the worker holding its write guard, or 0
    entry_lock      \* per key: the worker holding the entry's Mutex, or 0

mainVars == <<main_pc, exit_code, config>>
supVars == <<sighup, signals, sup_pc, sup_result, reload_log>>
cellVars == <<layers, security>>
reqVars == <<pc, req, ctx, snapshot, now, upstream, responded, written, headers, trace>>
metricVars == <<http_requests_total, http_request_duration_seconds>>
lockVars == <<shard_of, shard_guard, entry_lock>>
vars == <<clock, mainVars, supVars, cellVars, reqVars, metricVars, started,
          accepted, called, lockVars>>

NoRequest ==
    [method |-> "", path |-> << >>, user_agent |-> None,
     authorization |-> None, client_addr |-> None]
NoCtx == [start |-> 0, method |-> "", path |-> << >>]

Init ==
    /\ clock = 0
    /\ main_pc = "start"
    /\ exit_code = None
    /\ config = None
    /\ layers = << >>
    /\ security = 0
    /\ sighup = FALSE
    /\ signals = 0
    /\ sup_pc = "none"
    /\ sup_result = None
    /\ reload_log = << >>
    /\ pc = [p \in Workers |-> "idle"]
    /\ req = [p \in Workers |-> NoRequest]
    /\ ctx = [p \in Workers |-> NoCtx]
    /\ snapshot = [p \in Workers |-> 0]
    /\ now = [p \in Workers |-> 0]
    /\ upstream = [p \in Workers |-> None]
    /\ responded = [p \in Workers |-> None]
    /\ written = [p \in Workers |-> None]
    /\ headers = [p \in Workers |-> {}]
    /\ trace = [p \in Workers |-> << >>]
    /\ http_requests_total = << >>
    /\ http_request_duration_seconds = << >>
    /\ started = 0
    /\ accepted = << >>
    /\ called = {}
    /\ shard_of = [c \in Clients |-> 1]
    /\ shard_guard = [s \in Shards |-> 0]
    /\ entry_lock = [c \in Clients |-> 0]

\* ------------------------------------------------------------------ main.rs
\* ArcSwap::store(Arc::new(layer)): the new instance becomes the published one
store(layer) ==
    /\ layers' = Append(layers, layer)
    /\ security' = Len(layers) + 1

\* main(), lines 25-124: load the configuration (exit 1 on error), build and
\* publish the initial SecurityLayer, spawn the reload thread, run the server.
Main(f) ==
    /\ main_pc = "start"
    /\ IF f.kind # "Ok"
       THEN /\ main_pc' = "exited"
            /\ exit_code' = Some(1)
            /\ UNCHANGED <<config, cellVars, sup_pc>>
       ELSE /\ config' = Some(f.conf)
            /\ store(SecurityLayer_new(f.conf.rate_limit_per_second,
                                       f.conf.jwt_secret))
            /\ sup_pc' = "recv"
            /\ main_pc' = "serving"
            /\ UNCHANGED exit_code
    /\ UNCHANGED <<clock, sighup, signals, sup_result, reload_log, reqVars,
                   metricVars, started, accepted, called, lockVars>>

\* kill -HUP <pid> while the reload thread's handler is installed
Sighup ==
    /\ sup_pc # "none"
    /\ signals < MaxSignals
    /\ sighup' = TRUE
    /\ signals' = signals + 1
    /\ UNCHANGED <<clock, mainVars, sup_pc, sup_result, reload_log, cellVars,
                   reqVars, metricVars, started, accepted, called, lockVars>>

\* reload loop, lines 60-63: sig_hup.recv().await, then from_file
Reload_FromFile(f) ==
    /\ sup_pc = "recv"
    /\ sighup
    /\ sighup' = FALSE
    /\ sup_result' = Some(f)
    /\ sup_pc' = "match"
    /\ UNCHANGED <<clock, mainVars, signals, reload_log, cellVars, reqVars,
                   metricVars, started, accepted, called, lockVars>>

\* Reload_Match whose Err arm ends the reload thread
Reload_Match_Fatal ==
    /\ sup_pc = "match"
    /\ LET f == sup_result[1]
       IN  IF f.kind = "Ok"
           THEN /\ store(SecurityLayer_new(f.conf.rate_limit_per_second,
                                           f.conf.jwt_secret))
                /\ reload_log' = Append(reload_log, "reloaded")
                /\ sup_pc' = "recv"
           ELSE /\ reload_log' = Append(reload_log, "failed")
                /\ sup_pc' = "none"
                /\ UNCHANGED cellVars
    /\ sup_result' = None
    /\ UNCHANGED <<clock, mainVars, sighup, signals, reqVars, metricVars,
                   started, accepted, called, lockVars>>

\* reload loop, lines 63-75: Ok(new_conf) builds and stores a new
\* SecurityLayer; Err(e) logs and keeps the old one. Then the loop goes on.
Reload_Match ==
    /\ sup_pc = "match"
    /\ LET f == sup_result[1]
       IN  IF f.kind = "Ok"
           THEN /\ store(SecurityLayer_new(f.conf.rate_limit_per_second,
                                           f.conf.jwt_secret))
                /\ reload_log' = Append(reload_log, "reloaded")
           ELSE /\ reload_log' = Append(reload_log, "failed")
                /\ UNCHANGED cellVars
    /\ sup_pc' = "recv"
    /\ sup_result' = None
    /\ UNCHANGED <<clock, mainVars, sighup, signals, reqVars, metricVars,
                   started, accepted, called, lockVars>>

\* the monotonic clock advances
Tick ==
    /\ clock < MaxTime
    /\ clock' = clock + 1
    /\ UNCHANGED <<mainVars, supVars, cellVars, reqVars, metricVars, started,
                   accepted, called, lockVars>>

\* --------------------------------------------------------------- metrics.rs
\* IntCounterVec::with_label_values(labels).inc()
inc(counter, labels) ==
    [l \in DOMAIN counter \cup {labels} |->
        IF l = labels
        THEN (IF l \in DOMAIN counter THEN counter[l] ELSE 0) + 1
        ELSE counter[l]]

\* HistogramVec::with_label_values(labels).observe(v)
observe(histogram, labels, v) ==
    [l \in DOMAIN histogram \cup {labels} |->
        IF l = labels
        THEN IF l \in DOMAIN histogram
             THEN [count |-> histogram[l].count + 1, sum |-> histogram[l].sum + v]
             ELSE [count |-> 1, sum |-> v]
        ELSE histogram[l]]

\* record_request observing the duration under the status label alone
record_request_unlabelled(status, method, path, duration_secs) ==
    LET status_str == to_string(status)
    IN  /\ http_requests_total' =
               inc(http_requests_total, <<status_str, method, path>>)
        /\ http_request_duration_seconds' =
               observe(http_request_duration_seconds,
                       <<status_str, "", << >> >>, duration_secs)

\* Metrics::record_request
record_request(status, method, path, duration_secs) ==
    LET status_str == to_string(status)
    IN  /\ http_requests_total' =
               inc(http_requests_total, <<status_str, method, path>>)
        /\ http_request_duration_seconds' =
               observe(http_request_duration_seconds,
                       <<status_str, method, path>>, duration_secs)

\* ----------------------------------------------------------------- proxy.rs
\* client_ip giving every client the same key
client_ip_shared(r) == "unknown"

\* client_addr().map(to_string).unwrap_or("unknown")
client_ip(r) == IF r.client_addr = None THEN "unknown" ELSE r.client_addr[1]

\* is_metrics_request with the method test negated
is_metrics_request_negated(path, method) == path = MetricsPath /\ method # "GET"

\* is_metrics_request without the method test
is_metrics_request_any_method(path, method) == path = MetricsPath

\* request_filter, line 49: the request is answered by the proxy itself
is_metrics_request(path, method) == path = MetricsPath /\ method = "GET"

\* security_snapshot loading the cell at every use
security_snapshot_reloaded(p) == security

\* response_snapshot using the guard request_filter loaded
response_snapshot_held(p) == snapshot[p]

\* the Snapshot a check of request_filter runs on: the guard loaded at line 90
security_snapshot(p) == snapshot[p]

\* the Snapshot response_filter injects from: a second load, lines 163-164
response_snapshot(p) == security

\* after_check with the path and User-Agent checks in the other order
after_check_reordered(check, result) ==
    IF result # Ok THEN "logging"
    ELSE CASE check = "check_rate_limit" -> "check_user_agent"
           [] check = "check_user_agent" -> "check_path"
           [] check = "check_path" -> "check_jwt"
           [] check = "check_jwt" -> "upstream_peer"

\* after_check where a request refused by check_jwt is forwarded all the same
after_check_forward_denied(check, result) ==
    IF result # Ok /\ check # "check_jwt" THEN "logging"
    ELSE CASE check = "check_rate_limit" -> "check_path"
           [] check = "check_path" -> "check_user_agent"
           [] check = "check_user_agent" -> "check_jwt"
           [] check = "check_jwt" -> "upstream_peer"

\* where request_filter goes after a check: a denial answers and returns
\* Ok(true); otherwise the next check, lines 99-127
after_check(check, result) ==
    IF result # Ok THEN "logging"
    ELSE CASE check = "check_rate_limit" -> "check_path"
           [] check = "check_path" -> "check_user_agent"
           [] check = "check_user_agent" -> "check_jwt"
           [] check = "check_jwt" -> "upstream_peer"

\* a response head with this status is sent; nothing is written when the
\* client has gone
respond(p, status, client_gone) ==
    /\ responded' = [responded EXCEPT ![p] = Some(status)]
    /\ written' = [written EXCEPT ![p] =
                      IF client_gone THEN None ELSE Some(status)]

\* checked where a failed write of the denial ends the task without logging
checked_abort(p, check, result) ==
    /\ trace' = [trace EXCEPT ![p] =
                    Append(@, <<check, security_snapshot(p), result>>)]
    /\ IF result = Ok
       THEN /\ pc' = [pc EXCEPT ![p] = after_check(check, result)]
            /\ UNCHANGED <<responded, written>>
       ELSE \E client_gone \in BOOLEAN :
               /\ respond(p, result[1], client_gone)
               /\ pc' = [pc EXCEPT ![p] =
                            IF client_gone THEN "aborted" ELSE "logging"]

\* one check of request_filter has returned result
checked(p, check, result) ==
    /\ trace' = [trace EXCEPT ![p] =
                    Append(@, <<check, security_snapshot(p), result>>)]
    /\ pc' = [pc EXCEPT ![p] = after_check(check, result)]
    /\ IF result = Ok
       THEN UNCHANGED <<responded, written>>
       ELSE \E client_gone \in BOOLEAN : respond(p, result[1], client_gone)

\* new_ctx, for a request head r read from a connection
NewCtx(p, r) ==
    /\ main_pc = "serving"
    /\ pc[p] = "idle"
    /\ started < MaxRequests
    /\ started' = started + 1
    /\ req' = [req EXCEPT ![p] = r]
    /\ ctx' = [ctx EXCEPT ![p] = [start |-> clock, method |-> "", path |-> << >>]]
    /\ pc' = [pc EXCEPT ![p] = "request_filter"]
    /\ UNCHANGED <<clock, mainVars, supVars, cellVars, snapshot, now, upstream,
                   responded, written, headers, trace, metricVars, accepted, called, lockVars>>

\* request_filter, lines 39-97: fill the context; GET /metrics is answered
\* here (200, or the framework's 500 when encode fails); any other request
\* loads the published SecurityLayer.
RequestFilter(p) ==
    /\ pc[p] = "request_filter"
    /\ ctx' = [ctx EXCEPT ![p].method = req[p].method, ![p].path = req[p].path]
    /\ IF is_metrics_request(req[p].path, req[p].method)
       THEN /\ \E encode_ok \in BOOLEAN, client_gone \in BOOLEAN :
                   respond(p, IF encode_ok THEN 200 ELSE 500, client_gone)
            /\ trace' = [trace EXCEPT ![p] = Append(@, <<"metrics", 0, Ok>>)]
            /\ pc' = [pc EXCEPT ![p] = "logging"]
            /\ UNCHANGED snapshot
       ELSE /\ snapshot' = [snapshot EXCEPT ![p] = security]
            /\ pc' = [pc EXCEPT ![p] = "check_rate_limit"]
            /\ UNCHANGED <<responded, written, trace>>
    /\ UNCHANGED <<clock, mainVars, supVars, cellVars, req, now, upstream,
                   headers, metricVars, started, accepted, called, lockVars>>

\* check_rate_limit, line 37: let now = Instant::now()
CheckRateLimit_Now(p) ==
    /\ pc[p] = "check_rate_limit"
    /\ now' = [now EXCEPT ![p] = clock]
    /\ pc' = [pc EXCEPT ![p] = "rate_limit_entry"]
    /\ UNCHANGED <<clock, mainVars, supVars, cellVars, req, ctx, snapshot,
                   upstream, responded, written, headers, trace, metricVars,
                   started, accepted, called, lockVars>>

\* the store of instance i is replaced
set_store(i, new_store) ==
    layers' = [layers EXCEPT ![i].rate_limit_store = new_store]

\* an Ok call of client c dated t is counted
count_accepted(c, t) == inc(accepted, <<c, t>>)

\* check_rate_limit, lines 41-57, under the shard guard and the entry lock
CheckRateLimit_Entry(p) ==
    /\ pc[p] = "rate_limit_entry"
    /\ LET i == security_snapshot(p)
           r == check_rate_limit(layers[i], client_ip(req[p]), now[p])
       IN  /\ set_store(i, r.store)
           /\ checked(p, "check_rate_limit", r.result)
    /\ now' = [now EXCEPT ![p] = 0]
    /\ UNCHANGED <<clock, mainVars, supVars, security, req, ctx, snapshot,
                   upstream, headers, metricVars, started, accepted, called, lockVars>>

\* request_filter, lines 107-111
CheckPath(p) ==
    /\ pc[p] = "check_path"
    /\ checked(p, "check_path", check_path(req[p].path))
    /\ UNCHANGED <<clock, mainVars, supVars, cellVars, req, ctx, snapshot, now,
                   upstream, headers, metricVars, started, accepted, called, lockVars>>

\* request_filter, lines 114-118
CheckUserAgent(p) ==
    /\ pc[p] = "check_user_agent"
    /\ checked(p, "check_user_agent", check_user_agent(req[p].user_agent))
    /\ UNCHANGED <<clock, mainVars, supVars, cellVars, req, ctx, snapshot, now,
                   upstream, headers, metricVars, started, accepted, called, lockVars>>

\* request_filter, lines 121-127
CheckJwt(p) ==
    /\ pc[p] = "check_jwt"
    /\ checked(p, "check_jwt",
               check_jwt(layers[security_snapshot(p)], req[p].authorization))
    /\ UNCHANGED <<clock, mainVars, supVars, cellVars, req, ctx, snapshot, now,
                   upstream, headers, metricVars, started, accepted, called, lockVars>>

\* UpstreamPeer that selects again after a failed selection
UpstreamPeer_Retry(p) ==
    /\ pc[p] = "upstream_peer"
    /\ trace' = [trace EXCEPT ![p] = Append(@, <<"upstream_peer", 0, Ok>>)]
    /\ \E healthy \in BOOLEAN :
          IF healthy /\ Len(config[1].upstream_ips) > 0
          THEN /\ pc' = [pc EXCEPT ![p] = "upstream_request_filter"]
               /\ UNCHANGED <<responded, written>>
          ELSE IF Len(trace[p]) < 5
          THEN /\ pc' = [pc EXCEPT ![p] = "upstream_peer"]
               /\ UNCHANGED <<responded, written>>
          ELSE /\ pc' = [pc EXCEPT ![p] = "logging"]
               /\ \E client_gone \in BOOLEAN : respond(p, 500, client_gone)
    /\ UNCHANGED <<clock, mainVars, supVars, cellVars, req, ctx, snapshot, now,
                   upstream, headers, metricVars, started, accepted, called,
                   lockVars>>

\* upstream_peer: lb.select; with no healthy backend the error is answered
\* with 500 and the request goes to logging
UpstreamPeer(p) ==
    /\ pc[p] = "upstream_peer"
    /\ trace' = [trace EXCEPT ![p] = Append(@, <<"upstream_peer", 0, Ok>>)]
    /\ \E healthy \in BOOLEAN :
          IF healthy /\ Len(config[1].upstream_ips) > 0
          THEN /\ pc' = [pc EXCEPT ![p] = "upstream_request_filter"]
               /\ UNCHANGED <<responded, written>>
          ELSE /\ pc' = [pc EXCEPT ![p] = "logging"]
               /\ \E client_gone \in BOOLEAN : respond(p, 500, client_gone)
    /\ UNCHANGED <<clock, mainVars, supVars, cellVars, req, ctx, snapshot, now,
                   upstream, headers, metricVars, started, accepted, called, lockVars>>

\* upstream_request_filter rewrites Host and the request is forwarded: the
\* upstream answers, or the connection fails and 502 is answered
UpstreamRequestFilter(p) ==
    /\ pc[p] = "upstream_request_filter"
    /\ trace' = [trace EXCEPT ![p] = Append(@, <<"upstream_request_filter", 0, Ok>>)]
    /\ \E answer \in {None} \cup {Some(st) : st \in UpstreamStatuses} :
          IF answer # None
          THEN /\ upstream' = [upstream EXCEPT ![p] = answer]
               /\ pc' = [pc EXCEPT ![p] = "response_filter"]
               /\ UNCHANGED <<responded, written>>
          ELSE /\ pc' = [pc EXCEPT ![p] = "logging"]
               /\ \E client_gone \in BOOLEAN : respond(p, 502, client_gone)
               /\ UNCHANGED upstream
    /\ UNCHANGED <<clock, mainVars, supVars, cellVars, req, ctx, snapshot, now,
                   headers, metricVars, started, accepted, called, lockVars>>

\* response_filter: load the cell again, inject the headers; the response
\* head then goes to the client
ResponseFilter(p) ==
    /\ pc[p] = "response_filter"
    /\ trace' = [trace EXCEPT ![p] =
                    Append(@, <<"response_filter", response_snapshot(p), Ok>>)]
    /\ headers' = [headers EXCEPT ![p] =
                      inject_security_headers(layers[response_snapshot(p)])]
    /\ \E client_gone \in BOOLEAN : respond(p, upstream[p][1], client_gone)
    /\ pc' = [pc EXCEPT ![p] = "logging"]
    /\ UNCHANGED <<clock, mainVars, supVars, cellVars, req, ctx, snapshot, now,
                   upstream, metricVars, started, accepted, called, lockVars>>

\* logging: the status written (0 if none) and the context's labels go to
\* record_request; the request and its context end here
Logging(p) ==
    /\ pc[p] = "logging"
    /\ LET duration == clock - ctx[p].start
           status_code == IF written[p] = None THEN 0 ELSE written[p][1]
       IN  record_request(status_code, ctx[p].method, ctx[p].path, duration)
    /\ pc' = [pc EXCEPT ![p] = "idle"]
    /\ req' = [req EXCEPT ![p] = NoRequest]
    /\ ctx' = [ctx EXCEPT ![p] = NoCtx]
    /\ snapshot' = [snapshot EXCEPT ![p] = 0]
    /\ upstream' = [upstream EXCEPT ![p] = None]
    /\ responded' = [responded EXCEPT ![p] = None]
    /\ written' = [written EXCEPT ![p] = None]
    /\ headers' = [headers EXCEPT ![p] = {}]
    /\ trace' = [trace EXCEPT ![p] = << >>]
    /\ UNCHANGED <<clock, mainVars, supVars, cellVars, now, started, accepted, called, lockVars>>

\* ------------------------------------------------- check_rate_limit, called
\* directly, statement by statement. Line 37: a caller holding the published
\* SecurityLayer samples the clock.
Call_Now(p, client_addr) ==
    /\ main_pc = "serving"
    /\ pc[p] = "idle"
    /\ started < MaxCalls
    /\ started' = started + 1
    /\ req' = [req EXCEPT ![p].client_addr = client_addr]
    /\ snapshot' = [snapshot EXCEPT ![p] = security]
    /\ now' = [now EXCEPT ![p] = clock]
    /\ called' = called \cup
                    {<<IF client_addr = None THEN "unknown" ELSE client_addr[1],
                       clock>>}
    /\ pc' = [pc EXCEPT ![p] = "call_lock"]
    /\ UNCHANGED <<clock, mainVars, supVars, cellVars, ctx, upstream, responded,
                   written, headers, trace, metricVars, accepted, lockVars>>

\* worker p drops the guards it holds: guard, then entry, at the end of scope
release(p) ==
    /\ shard_guard' = [s \in Shards |->
                          IF shard_guard[s] = p THEN 0 ELSE shard_guard[s]]
    /\ entry_lock' = [c \in Clients |->
                         IF entry_lock[c] = p THEN 0 ELSE entry_lock[c]]

\* Call_Lock that does not wait for the holder of the shard guard
Call_Lock_NoWait(p) ==
    /\ pc[p] = "call_lock"
    /\ LET c == client_ip(req[p])
           i == security_snapshot(p)
       IN  /\ shard_guard' = [shard_guard EXCEPT ![shard_of[c]] = p]
           /\ entry_lock' = [entry_lock EXCEPT ![c] = p]
           /\ set_store(i, entry_or_insert(layers[i].rate_limit_store, c))
    /\ pc' = [pc EXCEPT ![p] = "call_trim"]
    /\ UNCHANGED <<clock, mainVars, supVars, security, req, ctx, snapshot, now,
                   upstream, responded, written, headers, trace, metricVars,
                   started, accepted, called, shard_of>>

\* lines 41-49: entry() takes the write guard of the key's shard, waiting
\* while another caller holds it; or_insert_with makes the entry; lock()
\* takes the entry's Mutex
Call_Lock(p) ==
    /\ pc[p] = "call_lock"
    /\ LET c == client_ip(req[p])
           i == security_snapshot(p)
       IN  /\ shard_guard[shard_of[c]] = 0
           /\ entry_lock[c] = 0
           /\ shard_guard' = [shard_guard EXCEPT ![shard_of[c]] = p]
           /\ entry_lock' = [entry_lock EXCEPT ![c] = p]
           /\ set_store(i, entry_or_insert(layers[i].rate_limit_store, c))
    /\ pc' = [pc EXCEPT ![p] = "call_trim"]
    /\ UNCHANGED <<clock, mainVars, supVars, security, req, ctx, snapshot, now,
                   upstream, responded, written, headers, trace, metricVars,
                   started, accepted, called, shard_of>>

\* the call of worker p returns: its locals and guards are dropped
call_return(p) ==
    /\ release(p)
    /\ called' = called \cup {<<client_ip(req[p]), clock>>}
    /\ now' = [now EXCEPT ![p] = 0]
    /\ req' = [req EXCEPT ![p] = NoRequest]
    /\ snapshot' = [snapshot EXCEPT ![p] = 0]
    /\ pc' = [pc EXCEPT ![p] = "idle"]

\* Call_Trim whose Err(429) return keeps the guards
Call_Trim_Leak(p) ==
    /\ pc[p] = "call_trim"
    /\ LET c == client_ip(req[p])
           i == security_snapshot(p)
           kept == retain(layers[i].rate_limit_store[c], now[p])
       IN  /\ set_store(i, [layers[i].rate_limit_store EXCEPT ![c] = kept])
           /\ IF Len(kept) >= layers[i].rate_limit_per_second
              THEN /\ now' = [now EXCEPT ![p] = 0]
                   /\ req' = [req EXCEPT ![p] = NoRequest]
                   /\ snapshot' = [snapshot EXCEPT ![p] = 0]
                   /\ pc' = [pc EXCEPT ![p] = "idle"]
                   /\ called' = called \cup {<<c, clock>>}
                   /\ UNCHANGED <<shard_guard, entry_lock>>
              ELSE /\ pc' = [pc EXCEPT ![p] = "call_push"]
                   /\ UNCHANGED <<now, req, snapshot, shard_guard, entry_lock,
                                  called>>
    /\ UNCHANGED <<clock, mainVars, supVars, security, ctx, upstream, responded,
                   written, headers, trace, metricVars, started, accepted,
                   shard_of>>

\* lines 50-55: retain the timestamps of the last second; with limit or more
\* of them left, return Err(429)
Call_Trim(p) ==
    /\ pc[p] = "call_trim"
    /\ LET c == client_ip(req[p])
           i == security_snapshot(p)
           kept == retain(layers[i].rate_limit_store[c], now[p])
       IN  /\ set_store(i, [layers[i].rate_limit_store EXCEPT ![c] = kept])
           /\ IF Len(kept) >= layers[i].rate_limit_per_second
              THEN call_return(p)
              ELSE /\ pc' = [pc EXCEPT ![p] = "call_push"]
                   /\ UNCHANGED <<now, req, snapshot, shard_guard, entry_lock,
                                  called>>
    /\ UNCHANGED <<clock, mainVars, supVars, security, ctx, upstream, responded,
                   written, headers, trace, metricVars, started, accepted,
                   shard_of>>

\* lines 56-57: push(now), return Ok(())
Call_Push(p) ==
    /\ pc[p] = "call_push"
    /\ LET c == client_ip(req[p])
           i == security_snapshot(p)
       IN  /\ set_store(i, [layers[i].rate_limit_store EXCEPT
                                ![c] = Append(@, now[p])])
           /\ accepted' = count_accepted(c, now[p])
    /\ call_return(p)
    /\ UNCHANGED <<clock, mainVars, supVars, security, ctx, upstream, responded,
                   written, headers, trace, metricVars, started, shard_of>>

Pipeline(p) ==
    \/ RequestFilter(p)
    \/ CheckRateLimit_Now(p)
    \/ CheckRateLimit_Entry(p)
    \/ CheckPath(p)
    \/ CheckUserAgent(p)
    \/ CheckJwt(p)
    \/ UpstreamPeer(p)
    \/ UpstreamRequestFilter(p)
    \/ ResponseFilter(p)
    \/ Logging(p)

\* the server running after main() loaded conf
Serving(conf, shards) ==
    /\ clock = 0
    /\ main_pc = "serving"
    /\ exit_code = None
    /\ config = Some(conf)
    /\ layers = <<SecurityLayer_new(conf.rate_limit_per_second, conf.jwt_secret)>>
    /\ security = 1
    /\ sighup = FALSE
    /\ signals = 0
    /\ sup_pc = "recv"
    /\ sup_result = None
    /\ reload_log = << >>
    /\ pc = [p \in Workers |-> "idle"]
    /\ req = [p \in Workers |-> NoRequest]
    /\ ctx = [p \in Workers |-> NoCtx]
    /\ snapshot = [p \in Workers |-> 0]
    /\ now = [p \in Workers |-> 0]
    /\ upstream = [p \in Workers |-> None]
    /\ responded = [p \in Workers |-> None]
    /\ written = [p \in Workers |-> None]
    /\ headers = [p \in Workers |-> {}]
    /\ trace = [p \in Workers |-> << >>]
    /\ http_requests_total = << >>
    /\ http_request_duration_seconds = << >>
    /\ started = 0
    /\ accepted = << >>
    /\ called = {}
    /\ shard_of = shards
    /\ shard_guard = [s \in Shards |-> 0]
    /\ entry_lock = [c \in Clients |-> 0]

\* The whole program: startup, reloads, and one connection's requests, all
\* within one reading of the clock.
Next ==
    \/ \E f \in FromFileResults : Main(f)
    \/ Sighup
    \/ \E f \in FromFileResults : Reload_FromFile(f)
    \/ Reload_Match
    \/ \E r \in ReloadRequests : NewCtx(1, r)
    \/ Pipeline(1)

Spec == Init /\ [][Next]_vars

\* The running server without reloads: concurrent requests of every shape,
\* all within one reading of the clock.
InitServe == \E conf \in ServeConfigs : Serving(conf, [c \in Clients |-> 1])
NextServe ==
    \/ \E p \in Workers : \E r \in Requests : NewCtx(p, r)
    \/ \E p \in Workers : Pipeline(p)

SpecServe == InitServe /\ [][NextServe]_vars

\* The running server with the runtime's scheduling: a request task that can
\* take its next step is eventually polled.
NextServeFair ==
    \/ \E p \in Workers : \E r \in LiveRequests : NewCtx(p, r)
    \/ \E p \in Workers : Pipeline(p)

SpecServeFair ==
    /\ InitServe
    /\ [][NextServeFair]_vars
    /\ \A p \in Workers : WF_vars(Pipeline(p))

\* One SecurityLayer under concurrent check_rate_limit calls while the clock
\* advances.
InitRate ==
    \E conf \in RateConfigs : \E shards \in ShardMaps : Serving(conf, shards)
NextRate ==
    \/ Tick
    \/ \E p \in Workers : \E c \in ClientAddrs : Call_Now(p, c)
    \/ \E p \in Workers : Call_Lock(p)
    \/ \E p \in Workers : Call_Trim(p)
    \/ \E p \in Workers : Call_Push(p)

SpecRate == InitRate /\ [][NextRate]_vars

\* The calls under fair scheduling, within one reading of the clock: a
\* caller inside the locked section runs on, and a caller waiting for a guard
\* that is free again and again gets it.
NextRateFair ==
    \/ \E p \in Workers : \E c \in ClientAddrs : Call_Now(p, c)
    \/ \E p \in Workers : Call_Lock(p)
    \/ \E p \in Workers : Call_Trim(p)
    \/ \E p \in Workers : Call_Push(p)

SpecRateFair ==
    /\ InitRate
    /\ [][NextRateFair]_vars
    /\ \A p \in Workers :
          /\ SF_vars(Call_Lock(p))
          /\ WF_vars(Call_Trim(p))
          /\ WF_vars(Call_Push(p))

\* ------------------------------------------------------------------ claims
RECURSIVE SumOver(_, _)
SumOver(f, S) ==
    IF S = {} THEN 0
    ELSE LET x == CHOOSE y \in S : TRUE
         IN  f[x] + SumOver(f, S \ {x})

\* direct calls of client c that returned Ok and are dated in [t, t + 1 s)
AcceptedInWindow(c, t) ==
    SumOver(accepted,
            {k \in DOMAIN accepted :
                k[1] = c /\ k[2] >= t /\ k[2] < t + window_duration})

\* C1: with a fixed ceiling and no reload, no interval of length 1 s holds
\* more than rate_limit_per_second Ok calls of one client, each call dated by
\* the instant it sampled (an interval holding some Ok call can be moved to
\* start at its first one).
C1_AtMostLimitPerWindow ==
    \A k \in DOMAIN accepted :
        AcceptedInWindow(k[1], k[2]) <= layers[security].rate_limit_per_second

\* the checks of request_filter, in the order of lines 99-125, and the status
\* each denies with
Chain == <<"check_rate_limit", "check_path", "check_user_agent", "check_jwt">>
DenialStatus == <<429, 403, 403, 401>>

\* the entries of a worker's trace that are checks
Checks(p) == SelectSeq(trace[p], LAMBDA e : \E i \in 1..4 : Chain[i] = e[1])
Intercepted(p) == trace[p] # << >> /\ trace[p][1][1] = "metrics"
InFlight(p) == pc[p] # "idle"

\* C2: a request that is not an intercepted GET /metrics has its checks
\* evaluated in the order rate limit, path, User-Agent, token; the path and
\* User-Agent results are those of its own head; no check follows a failed
\* one; a failed check ends request_filter with that check's status (429,
\* 403, 403, 401) as the answer, and only four passed checks lead on to
\* upstream selection.
C2_FirstDenialWins ==
    \A p \in Workers :
        (InFlight(p) /\ ~Intercepted(p)) =>
            LET cs == Checks(p)
                n == Len(cs)
            IN  /\ n <= 4
                /\ \A i \in 1..n : cs[i][1] = Chain[i]
                /\ \A i \in 1..n : i < n => cs[i][3] = Ok
                /\ n >= 2 => cs[2][3] = check_path(req[p].path)
                /\ n >= 3 => cs[3][3] = check_user_agent(req[p].user_agent)
                /\ (n > 0 /\ cs[n][3] # Ok) =>
                        /\ pc[p] = "logging"
                        /\ trace[p] = cs
                        /\ cs[n][3] = Err(DenialStatus[n])
                        /\ responded[p] = Some(DenialStatus[n])
                /\ pc[p] \in {"upstream_peer", "upstream_request_filter",
                               "response_filter"}
                        => (n = 4 /\ cs[4][3] = Ok)
                /\ Len(trace[p]) > n => (n = 4 /\ cs[4][3] = Ok)

\* a request whose path, User-Agent and token would all be refused was
\* answered 403 by the path check, and nothing after it ran
C2_Witness ==
    \E p \in Workers :
        /\ pc[p] = "logging"
        /\ check_path(req[p].path) # Ok
        /\ check_user_agent(req[p].user_agent) # Ok
        /\ req[p].authorization = None
        /\ Len(trace[p]) = 2
        /\ responded[p] = Some(403)

\* C9: a GET /metrics request never reaches upstream selection or
\* forwarding: it is at no upstream hook, its trace holds none, it holds no
\* upstream answer.
C9_MetricsNeverUpstream ==
    \A p \in Workers :
        (InFlight(p) /\ req[p].method = "GET" /\ req[p].path = MetricsPath) =>
            /\ pc[p] \in {"request_filter", "logging"}
            /\ \A i \in 1..Len(trace[p]) : trace[p][i][1] = "metrics"
            /\ upstream[p] = None
            /\ headers[p] = {}

\* a GET /metrics request was answered 200 by the proxy and is at logging
C9_Witness ==
    \E p \in Workers :
        /\ req[p].method = "GET" /\ req[p].path = MetricsPath
        /\ pc[p] = "logging"
        /\ written[p] = Some(200)

\* requests that went through logging
Logged == started - Cardinality({p \in Workers : InFlight(p)})

\* C10: each request that went through logging added exactly one to
\* http_requests_total and one observation to
\* http_request_duration_seconds under the same label tuple: the counters
\* sum to the number of logged requests, and under every label tuple the
\* histogram holds as many observations as the counter counts.
C10_OneRecordPerRequest ==
    /\ SumOver(http_requests_total, DOMAIN http_requests_total) = Logged
    /\ DOMAIN http_request_duration_seconds = DOMAIN http_requests_total
    /\ \A l \in DOMAIN http_requests_total :
          /\ http_request_duration_seconds[l].count = http_requests_total[l]
          /\ l[2] \in Methods
          /\ l[3] \in Paths

\* two requests were logged under two different label tuples
C10_Witness ==
    /\ Logged = 2
    /\ Cardinality(DOMAIN http_requests_total) = 2

\* the reload thread finishes one pass of its loop in this step
ReloadStep == sup_pc = "match" /\ sup_pc' # "match"
\* the Snapshot published in this state
Published == layers[security]

\* C3: the rate-limit store survives a reload: the store of the Snapshot a
\* reload publishes holds the timestamps the replaced Snapshot had retained.
C3_StoreSurvivesReload ==
    [][(ReloadStep /\ security' # security) =>
          layers'[security'].rate_limit_store = Published.rate_limit_store]_vars

C5_OneSnapshotForAllChecks ==
    [][\A p \in Workers :
          /\ (pc[p] = "request_filter" /\ pc'[p] = "check_rate_limit")
                => snapshot'[p] = security
          /\ (pc[p] \notin {"idle", "request_filter", "logging"})
                => /\ snapshot'[p] = snapshot[p]
                   /\ layers'[snapshot[p]].rate_limit_per_second =
                          layers[snapshot[p]].rate_limit_per_second
                   /\ layers'[snapshot[p]].jwt_decoding_key =
                          layers[snapshot[p]].jwt_decoding_key
          /\ (pc[p] \in {"rate_limit_entry", "check_path", "check_user_agent",
                          "check_jwt"} /\ pc'[p] # pc[p])
                => trace'[p][Len(trace'[p])][2] = snapshot[p]
          /\ (pc[p] = "rate_limit_entry" /\ pc'[p] # pc[p])
                => trace'[p][Len(trace'[p])][3] =
                       check_rate_limit(layers[snapshot[p]], client_ip(req[p]),
                                        now[p]).result
          /\ (pc[p] = "check_jwt" /\ pc'[p] # pc[p])
                => trace'[p][Len(trace'[p])][3] =
                       check_jwt(layers[snapshot[p]], req[p].authorization)]_vars

\* a reload changed the key while a request was between its checks: its
\* token passed under the key it had loaded, and the published key refuses it
C5_Witness ==
    \E p \in Workers :
        /\ pc[p] = "upstream_peer"
        /\ snapshot[p] # security
        /\ check_jwt(layers[snapshot[p]], req[p].authorization) = Ok
        /\ check_jwt(Published, req[p].authorization) # Ok

\* C6: in a process started with a valid configuration, a reload that reads
\* a configuration validate rejects leaves the published Snapshot as it was,
\* so the published ceiling stays positive through every reload.
C6_InvalidReloadKeepsSnapshot ==
    [][(/\ ReloadStep
        /\ validate(config[1]) = Ok
        /\ Published.rate_limit_per_second > 0) =>
          /\ (sup_result[1].kind = "Ok" /\ validate(sup_result[1].conf) # Ok)
                => (security' = security /\ layers' = layers)
          /\ layers'[security'].rate_limit_per_second > 0]_vars

\* C7: a reload whose from_file fails (unreadable or unparsable file) leaves
\* the published Snapshot and the process as they were, logs the failure,
\* and the reload thread is back at recv for the next signal.
C7_FailedReloadIsSwallowed ==
    [][(ReloadStep /\ sup_result[1].kind # "Ok") =>
          /\ security' = security
          /\ layers' = layers
          /\ main_pc' = "serving"
          /\ exit_code' = None
          /\ reload_log' = Append(reload_log, "failed")
          /\ sup_pc' = "recv"]_vars

\* after a failed reload a later one succeeded and published a new Snapshot
C7_Witness ==
    /\ reload_log = <<"failed", "reloaded">>
    /\ security = 2
    /\ sup_pc = "recv"

\* C8: a startup configuration validate rejects makes the process exit with
\* a non-zero code, no Snapshot published, no request served.
C8_InvalidStartupExits ==
    (config # None /\ validate(config[1]) # Ok) =>
        /\ main_pc = "exited"
        /\ exit_code # None /\ exit_code # Some(0)
        /\ security = 0
        /\ started = 0

\* the request of worker p was refused by one of its checks
Denied(p) == \E i \in 1..Len(Checks(p)) : Checks(p)[i][3] # Ok
UpstreamHooks == {"upstream_peer", "upstream_request_filter", "response_filter"}
\* the status logging reads from session.response_written()
StatusWritten(p) == IF written[p] = None THEN 0 ELSE written[p][1]
\* the label tuple logging records the request of worker p under
LabelOf(p) == <<to_string(StatusWritten(p)), ctx[p].method, ctx[p].path>>
Count(l) == IF l \in DOMAIN http_requests_total THEN http_requests_total[l] ELSE 0
LoggingStep(p) == pc[p] = "logging" /\ pc'[p] = "idle"

\* C11: a request refused by a check is at logging and nowhere else: no
\* upstream hook ran or runs for it, it holds no upstream answer, the answer
\* is the status of the refusing check, and what was written to the client is
\* that status if anything; logging then counts it under the status written.
C11_DeniedGoesToLogging ==
    /\ [](\A p \in Workers :
            Denied(p) =>
                /\ pc[p] = "logging"
                /\ \A i \in 1..Len(trace[p]) : trace[p][i][1] \notin UpstreamHooks
                /\ upstream[p] = None
                /\ headers[p] = {}
                /\ responded[p] = Some(DenialStatus[Len(Checks(p))])
                /\ written[p] \in {None, responded[p]})
    /\ [][\A p \in Workers :
            (Denied(p) /\ LoggingStep(p)) =>
                /\ http_requests_total'[LabelOf(p)] = Count(LabelOf(p)) + 1
                /\ written[p] # None =>
                       LabelOf(p)[1] = to_string(DenialStatus[Len(Checks(p))])]_vars

\* a request refused by the token check was logged with status 401
C11_Witness ==
    \E l \in DOMAIN http_requests_total :
        l = <<to_string(401), "GET", OkPath>>

\* C13: a request that passed its four checks and for which lb.select found
\* no healthy backend is answered 500 and goes to logging: upstream_peer ran
\* once, nothing was forwarded, no upstream answer is held; and with no
\* backend configured no request is ever forwarded.
C13_NoHealthyPeerIs500 ==
    /\ [](\A p \in Workers :
            /\ (pc[p] \in {"upstream_request_filter", "response_filter"})
                   => Len(config[1].upstream_ips) > 0
            /\ Cardinality({i \in 1..Len(trace[p]) :
                                trace[p][i][1] = "upstream_peer"}) <= 1
            /\ (Len(Checks(p)) = 4 /\ ~Denied(p)
                    /\ pc[p] \notin UpstreamHooks /\ upstream[p] = None
                    /\ trace[p][Len(trace[p])][1] = "upstream_peer")
                   => /\ pc[p] = "logging"
                      /\ Len(trace[p]) = 5
                      /\ responded[p] = Some(500)
                      /\ written[p] \in {None, Some(500)}
                      /\ headers[p] = {})
    /\ [][\A p \in Workers :
            (pc[p] = "upstream_peer" /\ pc'[p] # "upstream_peer") =>
                \/ pc'[p] = "upstream_request_filter" /\ responded'[p] = None
                \/ pc'[p] = "logging" /\ responded'[p] = Some(500)]_vars

\* a request that passed every check found no healthy backend, was answered
\* 500 and is at logging
C13_Witness ==
    \E p \in Workers :
        /\ pc[p] = "logging"
        /\ Len(Checks(p)) = 4 /\ ~Denied(p)
        /\ trace[p][Len(trace[p])][1] = "upstream_peer"
        /\ written[p] = Some(500)
        /\ Len(config[1].upstream_ips) > 0

\* C14: every request whose head was read goes through logging, whatever
\* its writes did; logging records the status written, 0 when the client
\* was gone before anything was written, and no step of the pipeline ends
\* the task before logging.
C14_AlwaysLogged ==
    /\ \A p \in Workers : (pc[p] = "request_filter") ~> (pc[p] = "idle")
    /\ [][\A p \in Workers :
            /\ pc'[p] # pc[p] =>
                   (pc'[p] = "idle" <=> pc[p] = "logging")
            /\ LoggingStep(p) =>
                   /\ http_requests_total'[LabelOf(p)] = Count(LabelOf(p)) + 1
                   /\ LabelOf(p)[1] =
                          IF written[p] = None THEN <<"0">>
                          ELSE to_string(responded[p][1])]_vars

\* a scrape whose client had gone before the response was written, and a
\* refused request whose client had gone, were both logged with status 0
C14_Witness ==
    /\ <<to_string(0), "GET", MetricsPath>> \in DOMAIN http_requests_total
    /\ \E pth \in Paths \ {MetricsPath} :
          <<to_string(0), "POST", pth>> \in DOMAIN http_requests_total

\* C19: request_filter answers a request itself exactly when its method is
\* GET and its path is /metrics: such a request runs no check, leaves every
\* rate-limit store as it was and is answered 200 (500 if encoding fails)
\* whatever its client's entry holds; every other request, any other method
\* on /metrics included, loads the Snapshot and starts the chain at the rate
\* limit, and is forwarded only after four passed checks.
C19_InterceptIffGetMetrics ==
    /\ [](\A p \in Workers :
            /\ Intercepted(p) =>
                   /\ req[p].method = "GET" /\ req[p].path = MetricsPath
                   /\ Checks(p) = << >>
                   /\ pc[p] = "logging"
                   /\ responded[p] \in {Some(200), Some(500)}
            /\ (InFlight(p) /\ req[p].path = MetricsPath /\ req[p].method # "GET")
                   => /\ ~Intercepted(p)
                      /\ pc[p] \in UpstreamHooks
                            => (Len(Checks(p)) = 4 /\ ~Denied(p)))
    /\ [][\A p \in Workers :
            (pc[p] = "request_filter" /\ pc'[p] # "request_filter") =>
                IF req[p].method = "GET" /\ req[p].path = MetricsPath
                THEN /\ pc'[p] = "logging"
                     /\ layers' = layers
                     /\ trace'[p] = <<<<"metrics", 0, Ok>>>>
                ELSE /\ pc'[p] = "check_rate_limit"
                     /\ snapshot'[p] = security
                     /\ responded'[p] = None]_vars

\* a POST /metrics went through the chain and was logged, its client's
\* entry is at the ceiling, and a scrape of that client is answered 200
C19_Witness ==
    \E p \in Workers :
        /\ Intercepted(p) /\ written[p] = Some(200)
        /\ Published.rate_limit_per_second > 0
        /\ client_ip(req[p]) \in DOMAIN Published.rate_limit_store
        /\ Len(Published.rate_limit_store[client_ip(req[p])])
              >= Published.rate_limit_per_second
        /\ \E l \in DOMAIN http_requests_total :
              l[2] = "POST" /\ l[3] = MetricsPath /\ l[1] # to_string(429)

\* ---- the direct calls of check_rate_limit
\* the client a call of worker p is for, and the SecurityLayer it runs on
Identity(p) == IF req[p].client_addr = None THEN "unknown" ELSE req[p].client_addr[1]
EntryIn(ls, i, c) ==
    IF c \in DOMAIN ls[i].rate_limit_store THEN ls[i].rate_limit_store[c]
    ELSE << >>
HasEntry(ls, i, c) == c \in DOMAIN ls[i].rate_limit_store
Calling(p) == pc[p] \in {"call_lock", "call_trim", "call_push"}
InSection(p) == pc[p] \in {"call_trim", "call_push"}
CallStep(p) == Calling(p) /\ pc'[p] # pc[p]
\* the timestamps of a sequence less than 1 s before n (0 s if after n)
Within(ts, n) ==
    SelectSeq(ts, LAMBDA t : ~((IF n >= t THEN n - t ELSE 0) >= window_duration))
AcceptedIn(acc, c, t) == IF <<c, t>> \in DOMAIN acc THEN acc[<<c, t>>] ELSE 0
Accepted(c, t) == AcceptedIn(accepted, c, t)

\* C12: budgets are per client string: a step of a call for client c1
\* leaves the entry of every other client as it was (and creates none);
\* while a call is inside its locked section no other call touches its
\* client's entry; the call is refused exactly when its own entry holds
\* ceiling or more timestamps of the last second.
C12_PerClientBudget ==
    [][\A p \in Workers :
          LET c1 == Identity(p)
              i == snapshot[p]
          IN  /\ CallStep(p) =>
                     \A c2 \in Clients \ {c1} :
                         /\ EntryIn(layers', i, c2) = EntryIn(layers, i, c2)
                         /\ HasEntry(layers', i, c2) = HasEntry(layers, i, c2)
              /\ (InSection(p) /\ pc'[p] = pc[p]) =>
                     EntryIn(layers', i, c1) = EntryIn(layers, i, c1)
              /\ (pc[p] = "call_trim" /\ pc'[p] # pc[p]) =>
                     (pc'[p] = "idle" <=>
                         Len(Within(EntryIn(layers, i, c1), now[p]))
                             >= layers[i].rate_limit_per_second)]_vars

\* one client's entry is at the ceiling and a call of the other client,
\* whose entry is shorter, is about to append
C12_Witness ==
    \E p \in Workers :
        /\ pc[p] = "call_push"
        /\ \E c2 \in Clients \ {Identity(p)} :
              /\ HasEntry(layers, snapshot[p], c2)
              /\ Len(EntryIn(layers, snapshot[p], c2))
                    >= layers[snapshot[p]].rate_limit_per_second

\* C15: the locked section of a call dated n first keeps exactly the
\* timestamps t of its client with n - t < 1 s (saturating); with ceiling
\* or more of them kept it returns Err(429) and the entry is what was kept;
\* otherwise it appends n and returns Ok.
C15_TrimCompareAppend ==
    [][\A p \in Workers :
          LET c == Identity(p)
              i == snapshot[p]
              old == EntryIn(layers, i, c)
              new == EntryIn(layers', i, c)
              limit == layers[i].rate_limit_per_second
          IN  /\ (pc[p] = "call_trim" /\ pc'[p] # pc[p]) =>
                     /\ new = Within(old, now[p])
                     /\ Len(new) <= Len(old)
                     /\ IF Len(new) >= limit
                        THEN pc'[p] = "idle" /\ accepted' = accepted
                        ELSE pc'[p] = "call_push"
              /\ (pc[p] = "call_push" /\ pc'[p] # pc[p]) =>
                     /\ Len(old) < limit
                     /\ new = Append(old, now[p])
                     /\ pc'[p] = "idle"
                     /\ AcceptedIn(accepted', c, now[p])
                            = Accepted(c, now[p]) + 1]_vars

\* calls that have returned, and those of them that returned Err(429)
Returned == started - Cardinality({w \in Workers : Calling(w)})
Refused == Returned - SumOver(accepted, DOMAIN accepted)

\* a timestamp of an Ok call was dropped by a later trim, the entry is at
\* the ceiling again, and a call was refused
C15_Witness ==
    \E c \in Clients :
        /\ HasEntry(layers, security, c)
        /\ Len(EntryIn(layers, security, c)) = Published.rate_limit_per_second
        /\ Refused > 0
        /\ \E t \in 0..MaxTime :
              /\ Accepted(c, t) > 0
              /\ \A j \in 1..Len(EntryIn(layers, security, c)) :
                    EntryIn(layers, security, c)[j] # t

\* C16: when a call dated n returns, every timestamp t left in its client's
\* entry has n - 1 s < t <= n.
C16_RetainedWithinWindow ==
    [][\A p \in Workers :
          (InSection(p) /\ pc'[p] = "idle") =>
              LET e == EntryIn(layers', snapshot[p], Identity(p))
              IN  \A j \in 1..Len(e) :
                      now[p] - window_duration < e[j] /\ e[j] <= now[p]]_vars

\* C17: the locked section is exclusive per client: two calls for one client
\* on one SecurityLayer are never both between lock and return, so no entry
\* ever holds more timestamps than its SecurityLayer's ceiling.
C17_EntryNeverExceedsCeiling ==
    /\ \A i \in 1..Len(layers) :
          \A c \in DOMAIN layers[i].rate_limit_store :
              Len(layers[i].rate_limit_store[c]) <= layers[i].rate_limit_per_second
    /\ \A p, q \in Workers :
          (p # q /\ InSection(p) /\ InSection(q) /\ snapshot[p] = snapshot[q])
              => Identity(p) # Identity(q)

\* one call is about to append the last timestamp its ceiling allows while
\* another call for the same client waits for the entry
C17_Witness ==
    \E p, q \in Workers :
        /\ pc[p] = "call_push" /\ pc[q] = "call_lock"
        /\ Identity(p) = Identity(q)
        /\ Len(EntryIn(layers, snapshot[p], Identity(p))) + 1
              = layers[snapshot[p]].rate_limit_per_second

\* clients with a call in progress, or begun or returned less than 1 s ago
ActiveClients ==
    {c \in Clients :
        \/ \E p \in Workers : Calling(p) /\ Identity(p) = c
        \/ \E k \in called : k[1] = c /\ clock - k[2] < window_duration}

\* C18: the store never holds more entries than there are clients with a
\* call in progress or within the last second.
C18_EntriesBoundedByActiveClients ==
    Cardinality(DOMAIN Published.rate_limit_store) <= Cardinality(ActiveClients)

\* C20: a caller holds the shard guard and the entry lock of its key exactly
\* while it is between lock and return, whichever way it returns; no step
\* inside waits for anything; under fair scheduling every call that has
\* sampled the clock returns.
C20_CallsReturnAndRelease ==
    /\ [](\A p \in Workers :
            /\ InSection(p) =>
                   /\ shard_guard[shard_of[Identity(p)]] = p
                   /\ entry_lock[Identity(p)] = p
            /\ ~InSection(p) =>
                   /\ \A s \in Shards : shard_guard[s] # p
                   /\ \A c \in Clients : entry_lock[c] # p
            /\ pc[p] = "call_trim" => ENABLED Call_Trim(p)
            /\ pc[p] = "call_push" => ENABLED Call_Push(p))
    /\ \A p \in Workers : (pc[p] = "call_lock") ~> (pc[p] = "idle")

\* after a call was refused, a call is inside the section of a shard another
\* caller waits for
C20_Witness ==
    \E p, q \in Workers :
        /\ InSection(p) /\ pc[q] = "call_lock"
        /\ shard_of[Identity(p)] = shard_of[Identity(q)]
        /\ Refused > 0

\* ---- the budget a refused request uses
\* requests whose rate-limit check has returned: all that were started,
\* less those not yet through it and those answered as scrapes
Scrapes ==
    SumOver(http_requests_total,
            {l \in DOMAIN http_requests_total : l[2] = "GET" /\ l[3] = MetricsPath})
        + Cardinality({p \in Workers : Intercepted(p)})
RateChecked ==
    started - Scrapes
        - Cardinality({p \in Workers :
              pc[p] \in {"request_filter", "check_rate_limit", "rate_limit_entry"}})
Min(a, b) == IF a <= b THEN a ELSE b

\* C21: the rate-limit check appends the request's instant before the path,
\* User-Agent and token checks run, and nothing takes it back: a refusal by
\* one of those checks (403 or 401) and logging leave the store as it is.
\* Within one second a client's entry therefore holds one timestamp for
\* every request of his that went through the rate-limit check, refused
\* later or not, up to the ceiling L, and with L of them in the entry his
\* next request is refused with 429.
C21_DeniedRequestConsumesSlot ==
    /\ [](\A c \in Clients \ {"unknown"} :
            Len(EntryIn(layers, security, c))
                = Min(Published.rate_limit_per_second, RateChecked))
    /\ [][\A p \in Workers :
            LET c == Identity(p)
                i == snapshot[p]
                kept == Within(EntryIn(layers, i, c), now[p])
            IN  /\ (pc[p] = "rate_limit_entry" /\ pc'[p] # pc[p]) =>
                       IF Len(kept) >= layers[i].rate_limit_per_second
                       THEN /\ pc'[p] = "logging"
                            /\ responded'[p] = Some(429)
                            /\ EntryIn(layers', i, c) = kept
                       ELSE /\ pc'[p] = "check_path"
                            /\ EntryIn(layers', i, c) = Append(kept, now[p])
                /\ (pc[p] \in {"check_path", "check_user_agent", "check_jwt"}
                        /\ pc'[p] = "logging") =>
                       /\ responded'[p] \in {Some(403), Some(401)}
                       /\ trace[p][1] = <<"check_rate_limit", i, Ok>>
                       /\ layers' = layers
                /\ LoggingStep(p) => layers' = layers]_vars

\* with a ceiling of one, a client's first request was refused 403 or 401
\* and logged, and his second request is refused 429
C21_Witness ==
    /\ Published.rate_limit_per_second = 1
    /\ started = 2
    /\ \E l \in DOMAIN http_requests_total :
          l[1] \in {to_string(403), to_string(401)}
    /\ \E p \in Workers : responded[p] = Some(429)

====
